---- MODULE Spec2Model ----
(***************************************************************************)
(* sketchup-mcp example scripts and smoke test.                            *)
(*                                                                         *)
(* Part I models the Python side: each script's main() connects, sends its *)
(* canned Ruby payload(s) through eval_ruby, decodes the response text as  *)
(* JSON and logs.  The remote side is external, so every response is a     *)
(* nondeterministic choice over the texts a server can send back.          *)
(*                                                                         *)
(* Part II models the Ruby payloads themselves (the string literals), run  *)
(* statement by statement against a SketchUp model in which any API call   *)
(* may raise.                                                              *)
(***************************************************************************)
EXTENDS Integers, Sequences, FiniteSets, TLC

VARIABLES
    script,         \* which file is being run
    connected,      \* client.is_connected
    pc,             \* position in the script
    log,            \* records emitted through logger / print, in order
    calls,          \* eval_ruby calls made so far, in order
    response,       \* text returned by the most recent eval_ruby call
    idx,            \* number of EXAMPLES / TEST_CASES entries finished
    success_count,  \* ruby_tester.main's counter
    rets,           \* values returned by test_ruby_code so far
    exc,            \* uncaught exception that ended the run, or "none"
    payload,        \* Part II: which Ruby payload is executing
    rpc,            \* Part II: index of the next Ruby statement
    rstate,         \* Part II: "running", "returned" or "raised"
    open_ops,       \* Part II: operations started and not yet committed
    starts,         \* Part II: number of start_operation calls
    commits,        \* Part II: number of commit_operation calls
    definitions,    \* Part II: model.definitions, names in order added
    entities,       \* Part II: every entity created, in order
    next_id,        \* Part II: next entityID SketchUp hands out
    property_results, \* Part II: behavior payload's property_results hash
    retval          \* Part II: value of the payload's last expression

pyvars == <<script, connected, pc, log, calls, response, idx, success_count,
            rets, exc>>
rbvars == <<payload, rpc, rstate, open_ops, starts, commits, definitions,
            entities, next_id, property_results, retval>>
vars == <<pyvars, rbvars>>

(***************************************************************************)
(* Bounds                                                                  *)
(***************************************************************************)
MaxMethods == 2       \* longest all_methods list a response carries
MaxProps == 2         \* most property_results entries a response carries
MaxPreexisting == 1   \* entities already in the model before a payload runs

(***************************************************************************)
(* Part I.  JSON values and Python truthiness                              *)
(***************************************************************************)

\* A JSON scalar or container is written as its JSON text; "absent" stands
\* for a key the object does not have.
SuccessTokens == {"absent", "true", "false", "0", "\"false\"", "[]"}
ErrorTokens == {"absent", "\"undefined method\""}

\* dict.get(key): a missing key reads as None, like a JSON null.
Get(tok) == IF tok = "absent" THEN "null" ELSE tok

\* bool(x) for the decoded value of a JSON text.
Truthy(tok) == tok \notin {"null", "false", "0", "\"\"", "[]", "{}"}

\* properties_to_test of the behavior payload; property_results is keyed by
\* these in order.
properties_to_test == <<"snapto", "cuts_opening", "always_face_camera",
                        "no_scale_tool", "shadows_face_sun", "is_component",
                        "component?">>

\* One value of the property_results hash.  shape "other" is a value that
\* is not a JSON object.
PropObject(e, r, w, err) ==
    [shape |-> "object", exists |-> e, readable |-> r, writable |-> w, error |-> err]
PropShapes ==
    { PropObject("true", "true", "true", "absent"),
      PropObject("true", "true", "false", "absent"),
      PropObject("false", "absent", "absent", "absent"),
      PropObject("true", "absent", "absent", "\"undefined method\""),
      PropObject("absent", "absent", "absent", "absent"),
      [shape |-> "other", exists |-> "absent", readable |-> "absent",
       writable |-> "absent", error |-> "absent"] }

MethodNames == <<"always_face_camera", "cuts_opening", "is2d", "snapto">>

SeqsUpTo(S, n) == UNION { [1..k -> S] : k \in 0..n }

\* The 'result' member of a response object.
\*   py   : Python type after the outer decode ("absent" = no such key)
\*   json : for a str, what its content is when decoded again
ResultField(py, json, hm, ms, hp, ps) ==
    [py |-> py, json |-> json, has_methods |-> hm, all_methods |-> ms,
     has_props |-> hp, property_results |-> ps]
PlainResult(py, json) == ResultField(py, json, FALSE, <<>>, FALSE, <<>>)
NoResult == PlainResult("absent", "n/a")

SimpleResults == { NoResult, PlainResult("str", "invalid") }

BehaviorResults ==
    { NoResult, PlainResult("int", "n/a"), PlainResult("str", "invalid"),
      PlainResult("str", "array"), PlainResult("str", "object") }
    \cup { ResultField("str", "object", TRUE, SubSeq(MethodNames, 1, n), FALSE, <<>>) :
             n \in 0..MaxMethods }
    \cup { ResultField("str", "object", TRUE, SubSeq(MethodNames, 1, n), TRUE, ps) :
             n \in 0..MaxMethods, ps \in SeqsUpTo(PropShapes, MaxProps) }

\* A response text.  valid: whether it is valid JSON.  shape: what it
\* decodes to.
Resp(valid, shape, text, s, r, e) ==
    [valid |-> valid, shape |-> shape, text |-> text, success |-> s,
     result |-> r, error |-> e]
NoResponse == Resp(FALSE, "none", "<no response>", "absent", NoResult, "absent")
NotJson == { Resp(FALSE, "none", "Error: connection reset", "absent", NoResult, "absent") }
NonObjects ==
    { Resp(TRUE, sh, sh, "absent", NoResult, "absent") : sh \in {"null", "array", "string"} }
Objects(results) ==
    { Resp(TRUE, "object", "{...}", s, r, e) :
        s \in SuccessTokens, r \in results, e \in ErrorTokens }

ResultsFor(s) == IF s = "behavior_tester" THEN BehaviorResults ELSE SimpleResults

\* Everything client.eval_ruby / eval_ruby may hand back to script s.
Responses(s) == NotJson \cup NonObjects \cup Objects(ResultsFor(s))

(***************************************************************************)
(* Part I.  The scripts                                                    *)
(***************************************************************************)
Examples == {"arts_and_crafts_cabinet", "simple_test", "behavior_tester",
             "simple_ruby_eval", "ruby_tester"}
Scripts == Examples \cup {"test_eval_ruby"}

EXAMPLES == << [name |-> "Create a line", code |-> "EXAMPLES[0]"],
               [name |-> "Create a cube", code |-> "EXAMPLES[1]"],
               [name |-> "Get model information", code |-> "EXAMPLES[2]"] >>

TEST_CASES == << [name |-> "Basic Model Access", code |-> "TEST_CASES[0]"],
                 [name |-> "Create Group", code |-> "TEST_CASES[1]"],
                 [name |-> "Create Face and Pushpull", code |-> "TEST_CASES[2]"],
                 [name |-> "Component Definition", code |-> "TEST_CASES[3]"],
                 [name |-> "Component Behavior", code |-> "TEST_CASES[4]"],
                 [name |-> "Component Instance", code |-> "TEST_CASES[5]"] >>

MockContext_request_id == 1

Info(msg, arg) == [level |-> "INFO", msg |-> msg, arg |-> arg]
Error(msg, arg) == [level |-> "ERROR", msg |-> msg, arg |-> arg]
Stdout(msg, arg) == [level |-> "PRINT", msg |-> msg, arg |-> arg]

ClientCall(code) == [fn |-> "client.eval_ruby", code |-> code, request_id |-> 0]

\* The final line of each main(); for test_eval_ruby, its last print.
Completion(s) ==
    CASE s = "arts_and_crafts_cabinet" -> "Example completed."
      [] s = "simple_test" -> "Test completed."
      [] s = "behavior_tester" -> "Testing completed."
      [] s = "simple_ruby_eval" -> "All examples completed."
      [] s = "ruby_tester" -> "Testing complete: "
      [] OTHER -> "Parsed: "

\* A main that goes on without looking at client.is_connected.
CheckConnectionAlways(s, after) ==
    /\ script = s
    /\ pc = "start"
    /\ log' = log \o <<Info("Connected to SketchUp MCP server.", "")>> \o after
    /\ pc' = "connected"
    /\ UNCHANGED <<script, connected, calls, response, idx, success_count, rets, exc>>
    /\ UNCHANGED rbvars

\* client = Client("sketchup"); if not client.is_connected: ...; return
CheckConnection(s, after) ==
    /\ script = s
    /\ pc = "start"
    /\ IF ~connected
       THEN /\ log' = log \o <<Error("Failed to connect to the SketchUp MCP server.", "")>>
            /\ pc' = "returned"
       ELSE /\ log' = log \o <<Info("Connected to SketchUp MCP server.", "")>> \o after
            /\ pc' = "connected"
    /\ UNCHANGED <<script, connected, calls, response, idx, success_count, rets, exc>>
    /\ UNCHANGED rbvars

\* logger.info(<announcement>); response = client.eval_ruby(code=...)
CallEvalRuby(s, before, code) ==
    /\ script = s
    /\ pc = "connected"
    /\ log' = log \o before
    /\ calls' = Append(calls, ClientCall(code))
    /\ \E r \in Responses(s) : response' = r
    /\ pc' = "parse"
    /\ UNCHANGED <<script, connected, idx, success_count, rets, exc>>
    /\ UNCHANGED rbvars

\* try: result = json.loads(response); if result.get("success"): ... else: ...
\* except json.JSONDecodeError: ...
\* The value is what the block logs and the exception that escapes it.
Parse(r, okMsg, errMsg) ==
    IF ~r.valid
    THEN [logs |-> <<Error("Failed to parse response: ", r.text)>>, exc |-> "none", ret |-> FALSE]
    ELSE IF r.shape # "object"
    THEN [logs |-> <<>>, exc |-> "AttributeError", ret |-> FALSE]
    ELSE IF Truthy(Get(r.success))
    THEN [logs |-> <<Info(okMsg, r.result)>>, exc |-> "none", ret |-> TRUE]
    ELSE [logs |-> <<Error(errMsg, Get(r.error))>>, exc |-> "none", ret |-> FALSE]

\* The response has been handled: an exception that escaped ends the run,
\* otherwise `after` is logged and the script moves to `next`.
Finish(out, after, next) ==
    IF out.exc # "none"
    THEN /\ log' = log \o out.logs
         /\ exc' = out.exc
         /\ pc' = "raised"
    ELSE /\ log' = log \o out.logs \o after
         /\ exc' = exc
         /\ pc' = next

----
\* examples/arts_and_crafts_cabinet.py
cabinet_connect == CheckConnection("arts_and_crafts_cabinet", <<>>)

cabinet_eval ==
    CallEvalRuby("arts_and_crafts_cabinet",
                 <<Info("Creating arts and crafts cabinet...", "")>>,
                 "CABINET_RUBY_CODE")

cabinet_parse ==
    /\ script = "arts_and_crafts_cabinet"
    /\ pc = "parse"
    /\ Finish(Parse(response, "Cabinet created successfully! Result: ",
                    "Failed to create cabinet: "),
              <<Info("Example completed.", "")>>, "done")
    /\ UNCHANGED <<script, connected, calls, response, idx, success_count, rets>>
    /\ UNCHANGED rbvars

----
\* examples/simple_test.py
simple_test_connect == CheckConnection("simple_test", <<>>)

simple_test_eval ==
    CallEvalRuby("simple_test", <<Info("Creating a simple cube...", "")>>, "CUBE_CODE")

simple_test_parse ==
    /\ script = "simple_test"
    /\ pc = "parse"
    /\ Finish(Parse(response, "Cube created successfully! Group ID: ",
                    "Failed to create cube: "),
              <<Info("Test completed.", "")>>, "done")
    /\ UNCHANGED <<script, connected, calls, response, idx, success_count, rets>>
    /\ UNCHANGED rbvars

----
\* examples/simple_ruby_eval.py
simple_ruby_eval_connect == CheckConnection("simple_ruby_eval", <<>>)

\* for example in EXAMPLES: (the loop is over when every entry is done)
simple_ruby_eval_eval ==
    /\ idx < Len(EXAMPLES)
    /\ CallEvalRuby("simple_ruby_eval",
                    <<Info("Running example: ", EXAMPLES[idx + 1].name)>>,
                    EXAMPLES[idx + 1].code)

simple_ruby_eval_parse ==
    /\ script = "simple_ruby_eval"
    /\ pc = "parse"
    /\ LET last == idx + 1 = Len(EXAMPLES)
       IN  Finish(Parse(response, "Result: ", "Error: "),
                  <<Info("----------------------------------------", "")>>
                    \o (IF last THEN <<Info("All examples completed.", "")>> ELSE <<>>),
                  IF last THEN "done" ELSE "connected")
    /\ idx' = IF pc' = "raised" THEN idx ELSE idx + 1
    /\ UNCHANGED <<script, connected, calls, response, success_count, rets>>
    /\ UNCHANGED rbvars

----
\* examples/ruby_tester.py
\* The check-mark and cross that open the two messages are left out.
test_ruby_code(r) == Parse(r, "SUCCESS: ", "ERROR: ")

ruby_tester_connect ==
    CheckConnection("ruby_tester",
                    <<Info("==================================================", "")>>)

ruby_tester_eval ==
    /\ idx < Len(TEST_CASES)
    /\ CallEvalRuby("ruby_tester",
                    <<Info("Testing: ", TEST_CASES[idx + 1].name)>>,
                    TEST_CASES[idx + 1].code)

\* if test_ruby_code(client, test_case): success_count += 1
Count(out) == IF out.ret THEN success_count + 1 ELSE success_count

ruby_tester_parse ==
    /\ script = "ruby_tester"
    /\ pc = "parse"
    /\ LET out == test_ruby_code(response)
           last == idx + 1 = Len(TEST_CASES)
       IN  /\ Finish(out,
                     <<Info("--------------------------------------------------", "")>>
                       \o (IF last
                           THEN <<Info("Testing complete: ",
                                       <<Count(out), Len(TEST_CASES)>>)>>
                           ELSE <<>>),
                     IF last THEN "done" ELSE "connected")
           /\ IF out.exc # "none"
              THEN UNCHANGED <<idx, success_count, rets, response>>
              ELSE /\ idx' = idx + 1
                   /\ success_count' = Count(out)
                   /\ rets' = Append(rets, out.ret)
                   /\ response' = NoResponse
    /\ UNCHANGED <<script, connected, calls>>
    /\ UNCHANGED rbvars

----
\* examples/behavior_tester.py
behavior_connect == CheckConnection("behavior_tester", <<>>)

behavior_eval ==
    CallEvalRuby("behavior_tester",
                 <<Info("Testing component behavior methods...", "")>>,
                 "BEHAVIOR_TEST_CODE")

\* One pass of: for prop, prop_result in behavior_data["property_results"].items()
PropLine(name, p) ==
    IF Truthy(Get(p.exists))
    THEN LET readable == Truthy(Get(p.readable))
             writable == Truthy(Get(p.writable))
             error == Get(p.error)
             status == (IF readable THEN <<"readable">> ELSE <<>>)
                       \o (IF writable THEN <<"writable">> ELSE <<>>)
         IN  IF Truthy(error)
             THEN Info("  - {prop}: EXISTS but ERROR: ", <<name, error>>)
             ELSE Info("  - {prop}: EXISTS ", <<name, status>>)
    ELSE Info("  - {prop}: DOES NOT EXIST", <<name>>)

\* The property loop from entry i on: a value that is not an object has no
\* .get and ends the loop with AttributeError, keeping the lines before it.
RECURSIVE PropLines(_, _)
PropLines(ps, i) ==
    IF i > Len(ps)
    THEN [logs |-> <<>>, exc |-> "none"]
    ELSE IF ps[i].shape # "object"
    THEN [logs |-> <<>>, exc |-> "AttributeError"]
    ELSE LET rest == PropLines(ps, i + 1)
         IN  [logs |-> <<PropLine(properties_to_test[i], ps[i])>> \o rest.logs,
              exc |-> rest.exc]

\* behavior_data = json.loads(result.get("result")) and the two display loops.
MethodLines(ms) == [i \in 1..Len(ms) |-> Info("  - {method}", ms[i])]

InnerReport(res) ==
    IF res.py # "str"
    THEN [logs |-> <<>>, exc |-> "TypeError"]
    ELSE IF res.json = "invalid"
    THEN [logs |-> <<Error("Failed to parse response: ", "JSONDecodeError")>>,
          exc |-> "none"]
    ELSE LET header == <<Info("Available methods on Behavior object:", "")>>
             header2 == <<Info("\nProperty test results:", "")>>
         IN  IF res.json # "object"
             THEN [logs |-> header, exc |-> "TypeError"]
             ELSE IF ~res.has_methods
             THEN [logs |-> header, exc |-> "KeyError"]
             ELSE IF ~res.has_props
             THEN [logs |-> header \o MethodLines(res.all_methods) \o header2,
                   exc |-> "KeyError"]
             ELSE LET props == PropLines(res.property_results, 1)
                  IN  [logs |-> header \o MethodLines(res.all_methods) \o header2
                                  \o props.logs,
                       exc |-> props.exc]

\* A parse block that decodes 'result' before it looks at 'success'.
BehaviorParseEager(r) ==
    IF ~r.valid
    THEN [logs |-> <<Error("Failed to parse response: ", "JSONDecodeError")>>,
          exc |-> "none"]
    ELSE IF r.shape # "object"
    THEN [logs |-> <<>>, exc |-> "AttributeError"]
    ELSE IF Truthy(Get(r.success))
    THEN InnerReport(r.result)
    ELSE LET inner == InnerReport(r.result)
         IN  [logs |-> inner.logs \o <<Error("Error: ", Get(r.error))>>,
              exc |-> inner.exc]

\* try: result = json.loads(response); if result.get("success"): ... else: ...
\* except json.JSONDecodeError as e: ...
BehaviorParse(r) ==
    IF ~r.valid
    THEN [logs |-> <<Error("Failed to parse response: ", "JSONDecodeError")>>,
          exc |-> "none"]
    ELSE IF r.shape # "object"
    THEN [logs |-> <<>>, exc |-> "AttributeError"]
    ELSE IF Truthy(Get(r.success))
    THEN InnerReport(r.result)
    ELSE [logs |-> <<Error("Error: ", Get(r.error))>>, exc |-> "none"]

behavior_parse ==
    /\ script = "behavior_tester"
    /\ pc = "parse"
    /\ Finish(BehaviorParse(response), <<Info("Testing completed.", "")>>, "done")
    /\ UNCHANGED <<script, connected, calls, response, idx, success_count, rets>>
    /\ UNCHANGED rbvars

----
\* test_eval_ruby.py (module-level statements)

\* result = eval_ruby(MockContext(), test_code)
smoke_eval ==
    /\ script = "test_eval_ruby"
    /\ pc = "start"
    /\ calls' = Append(calls, [fn |-> "eval_ruby", code |-> "test_code",
                               request_id |-> MockContext_request_id])
    /\ \E r \in Responses(script) : response' = r
    /\ pc' = "print"
    /\ UNCHANGED <<script, connected, log, idx, success_count, rets, exc>>
    /\ UNCHANGED rbvars

\* A smoke test that prints the decoded form before the raw result.
SmokeOutputSwapped(r) ==
    IF ~r.valid
    THEN [logs |-> <<Stdout("Result: ", r.text)>>, exc |-> "JSONDecodeError"]
    ELSE [logs |-> <<Stdout("Parsed: ", r.shape), Stdout("Result: ", r.text)>>,
          exc |-> "none"]

\* print(f"Result: {result}"); parsed = json.loads(result); print(f"Parsed: ...")
SmokeOutput(r) ==
    IF ~r.valid
    THEN [logs |-> <<Stdout("Result: ", r.text)>>, exc |-> "JSONDecodeError"]
    ELSE [logs |-> <<Stdout("Result: ", r.text), Stdout("Parsed: ", r.shape)>>,
          exc |-> "none"]

smoke_print ==
    /\ script = "test_eval_ruby"
    /\ pc = "print"
    /\ Finish(SmokeOutput(response), <<>>, "done")
    /\ UNCHANGED <<script, connected, calls, response, idx, success_count, rets>>
    /\ UNCHANGED rbvars

(***************************************************************************)
(* Part II.  The Ruby payloads                                             *)
(*                                                                         *)
(* A payload is the sequence of SketchUp API calls its text makes, in      *)
(* execution order.  Pure constructors (Geom::Point3d.new, array and hash  *)
(* literals, arithmetic) change nothing in the model and are left out.     *)
(***************************************************************************)
Payloads == {"CABINET_RUBY_CODE", "CUBE_CODE", "BEHAVIOR_TEST_CODE"}

Stmt(op, a, b, z) == [op |-> op, a |-> a, b |-> b, z |-> z]
StartOperation(name) == Stmt("start_operation", name, "", 0)
CommitOperation == Stmt("commit_operation", "", "", 0)
DefinitionsAdd(name) == Stmt("definitions.add", name, "", 0)
AddGroup(ents) == Stmt("add_group", ents, "group", 0)
AddFace(ents, label, z) == Stmt("add_face", ents, label, z)
PushPull(ents, label, z) == Stmt("pushpull", ents, label, z)
AddCircle(ents, label) == Stmt("add_circle", ents, label, 0)
AddInstance(ents, defn) == Stmt("add_instance", ents, defn, 0)
SetSnapto(defn) == Stmt("snapto=", defn, "", 0)
Return(what) == Stmt("return", what, "", 0)

\* face = entities.add_face(points); face.pushpull(distance)
Extrusion(ents, label, z) == <<AddFace(ents, label, z), PushPull(ents, label, z)>>

height == 72

create_cabinet_box(ents) ==
    Extrusion(ents, "bottom", 0) \o Extrusion(ents, "back", 0)
      \o Extrusion(ents, "left", 0) \o Extrusion(ents, "right", 0)
      \o Extrusion(ents, "top", height)

\* positions.each do |z_pos| ... end
RECURSIVE create_shelves(_, _)
create_shelves(ents, positions) ==
    IF positions = <<>>
    THEN <<>>
    ELSE Extrusion(ents, "shelf", Head(positions))
           \o create_shelves(ents, Tail(positions))

add_door_details(ents) ==
    Extrusion(ents, "panel", 0)
      \o <<AddCircle(ents, "handle_circle")>>
      \o Extrusion(ents, "handle", 0)

Door(ents, name) ==
    <<DefinitionsAdd(name)>>
      \o Extrusion(name, "door", 0)
      \o add_door_details(name)
      \o <<AddInstance(ents, name), SetSnapto(name)>>

create_doors(ents) ==
    Door(ents, "Left Cabinet Door") \o Door(ents, "Right Cabinet Door")

add_corbels(ents) ==
    Extrusion(ents, "left_corbel", 0) \o Extrusion(ents, "right_corbel", 0)

add_crown(ents) ==
    Extrusion(ents, "crown", 0) \o Extrusion(ents, "taper", 0)

add_decorative_elements(ents) ==
    Extrusion(ents, "base", 0) \o add_corbels(ents) \o add_crown(ents)

\* A position list that lost its second entry.
OneShelf == <<height \div 3>>

\* shelf_positions = [height/3, 2*height/3]
shelf_positions == <<height \div 3, (2 * height) \div 3>>

create_arts_and_crafts_cabinet ==
    <<StartOperation("Create Arts and Crafts Cabinet"),
      DefinitionsAdd("Arts and Crafts Cabinet")>>
      \o create_cabinet_box("Arts and Crafts Cabinet")
      \o create_shelves("Arts and Crafts Cabinet", shelf_positions)
      \o create_doors("Arts and Crafts Cabinet")
      \o add_decorative_elements("Arts and Crafts Cabinet")
      \o <<AddInstance("active_entities", "Arts and Crafts Cabinet"),
           CommitOperation,
           Return("instance.entityID")>>

CUBE_CODE ==
    <<StartOperation("Create Test Cube"), AddGroup("active_entities")>>
      \o Extrusion("group", "face", 0)
      \o <<CommitOperation, Return("group.entityID.to_s")>>

\* for prop in properties_to_test ... end
TestProperties == [i \in 1..Len(properties_to_test) |->
                     Stmt("test_property", properties_to_test[i], "", 0)]

BEHAVIOR_TEST_CODE ==
    <<StartOperation("Test Component Behavior"),
      DefinitionsAdd("Test Component"),
      Stmt("behavior.methods", "Test Component", "", 0)>>
      \o TestProperties
      \o <<CommitOperation, Return("to_json")>>

Program(p) ==
    CASE p = "CABINET_RUBY_CODE" -> create_arts_and_crafts_cabinet
      [] p = "CUBE_CODE" -> CUBE_CODE
      [] p = "BEHAVIOR_TEST_CODE" -> BEHAVIOR_TEST_CODE
      [] OTHER -> <<>>

Current == Program(payload)[rpc]
At(op) == rstate = "running" /\ rpc <= Len(Program(payload)) /\ Current.op = op

Entity(kind, ents, label, z) ==
    [id |-> next_id, kind |-> kind, in |-> ents, label |-> label, z |-> z,
     extruded |-> FALSE]

\* The calls that build geometry or definitions: each may raise.
Fallible == {"definitions.add", "add_group", "add_face", "pushpull", "add_circle",
             "add_instance", "snapto=", "behavior.methods"}

rb_start_operation ==
    /\ At("start_operation")
    /\ open_ops' = open_ops + 1
    /\ starts' = starts + 1
    /\ rpc' = rpc + 1
    /\ UNCHANGED <<payload, rstate, commits, definitions, entities, next_id,
                   property_results, retval>>
    /\ UNCHANGED pyvars

rb_commit_operation ==
    /\ At("commit_operation")
    /\ open_ops' = IF open_ops > 0 THEN open_ops - 1 ELSE 0
    /\ commits' = commits + 1
    /\ rpc' = rpc + 1
    /\ UNCHANGED <<payload, rstate, starts, definitions, entities, next_id,
                   property_results, retval>>
    /\ UNCHANGED pyvars

rb_definitions_add ==
    /\ At("definitions.add")
    /\ definitions' = Append(definitions, [name |-> Current.a, snapto |-> "default"])
    /\ rpc' = rpc + 1
    /\ UNCHANGED <<payload, rstate, open_ops, starts, commits, entities, next_id,
                   property_results, retval>>
    /\ UNCHANGED pyvars

NewEntity(kind) ==
    /\ entities' = Append(entities, Entity(kind, Current.a, Current.b, Current.z))
    /\ next_id' = next_id + 1
    /\ rpc' = rpc + 1
    /\ UNCHANGED <<payload, rstate, open_ops, starts, commits, definitions,
                   property_results, retval>>
    /\ UNCHANGED pyvars

rb_add_group == At("add_group") /\ NewEntity("group")

rb_add_face == At("add_face") /\ NewEntity("face")

rb_add_circle == At("add_circle") /\ NewEntity("circle")

rb_add_instance == At("add_instance") /\ NewEntity("instance")

\* face.pushpull: the face made by the statement before it becomes a solid.
rb_pushpull ==
    /\ At("pushpull")
    /\ entities' = [entities EXCEPT ![Len(entities)].extruded = TRUE]
    /\ rpc' = rpc + 1
    /\ UNCHANGED <<payload, rstate, open_ops, starts, commits, definitions, next_id,
                   property_results, retval>>
    /\ UNCHANGED pyvars

rb_snapto ==
    /\ At("snapto=")
    /\ definitions' = [i \in 1..Len(definitions) |->
                         IF definitions[i].name = Current.a
                         THEN [definitions[i] EXCEPT !.snapto = "0"]
                         ELSE definitions[i]]
    /\ rpc' = rpc + 1
    /\ UNCHANGED <<payload, rstate, open_ops, starts, commits, entities, next_id,
                   property_results, retval>>
    /\ UNCHANGED pyvars

\* all_methods = behavior.methods - Object.methods
rb_behavior_methods ==
    /\ At("behavior.methods")
    /\ rpc' = rpc + 1
    /\ UNCHANGED <<payload, rstate, open_ops, starts, commits, definitions, entities,
                   next_id, property_results, retval>>
    /\ UNCHANGED pyvars

\* One pass of the property loop; begin/rescue keeps every failure inside.
PropertyOutcomes ==
    { PropObject("true", "true", "true", "absent"),
      PropObject("true", "true", "false", "absent"),
      PropObject("false", "absent", "absent", "absent"),
      PropObject("true", "absent", "absent", "\"undefined method\"") }

rb_test_property ==
    /\ At("test_property")
    /\ \E o \in PropertyOutcomes : property_results' = Append(property_results, o)
    /\ rpc' = rpc + 1
    /\ UNCHANGED <<payload, rstate, open_ops, starts, commits, definitions, entities,
                   next_id, retval>>
    /\ UNCHANGED pyvars

\* The value of the payload's last expression.
LastOf(kind) ==
    LET hits == { i \in 1..Len(entities) : entities[i].kind = kind }
    IN  IF hits = {} THEN 0
        ELSE entities[CHOOSE i \in hits : \A j \in hits : j <= i].id

ReturnValue(what) ==
    CASE what = "instance.entityID" -> [kind |-> "int", id |-> LastOf("instance")]
      [] what = "group.entityID.to_s" -> [kind |-> "str", id |-> LastOf("group")]
      [] OTHER -> [kind |-> "json", id |-> 0]

rb_return ==
    /\ At("return")
    /\ retval' = ReturnValue(Current.a)
    /\ rstate' = "returned"
    /\ UNCHANGED <<payload, rpc, open_ops, starts, commits, definitions, entities,
                   next_id, property_results>>
    /\ UNCHANGED pyvars

\* An API call raises: the exception leaves the payload, nothing rescues it.
rb_raise ==
    /\ rstate = "running"
    /\ rpc <= Len(Program(payload))
    /\ Current.op \in Fallible
    /\ rstate' = "raised"
    /\ UNCHANGED <<payload, rpc, open_ops, starts, commits, definitions, entities,
                   next_id, property_results, retval>>
    /\ UNCHANGED pyvars

Preexisting(k) ==
    [i \in 1..k |-> [id |-> i, kind |-> "edge", in |-> "active_entities",
                     label |-> "existing", z |-> 0, extruded |-> FALSE]]

RbInit ==
    /\ payload \in Payloads
    /\ rpc = 1
    /\ rstate = "running"
    /\ open_ops = 0
    /\ starts = 0
    /\ commits = 0
    /\ definitions = <<>>
    /\ \E k \in 0..MaxPreexisting :
         /\ entities = Preexisting(k)
         /\ next_id = k + 1
    /\ property_results = <<>>
    /\ retval = [kind |-> "none", id |-> 0]
    /\ script = "none"
    /\ connected = FALSE
    /\ pc = "idle"
    /\ log = <<>>
    /\ calls = <<>>
    /\ response = NoResponse
    /\ idx = 0
    /\ success_count = 0
    /\ rets = <<>>
    /\ exc = "none"

RbNext ==
    \/ rb_start_operation
    \/ rb_commit_operation
    \/ rb_definitions_add
    \/ rb_add_group
    \/ rb_add_face
    \/ rb_add_circle
    \/ rb_add_instance
    \/ rb_pushpull
    \/ rb_snapto
    \/ rb_behavior_methods
    \/ rb_test_property
    \/ rb_return
    \/ rb_raise

\* A script is started; Client("sketchup") has either connected or not.
Init ==
    /\ script \in Scripts
    /\ connected \in (IF script = "test_eval_ruby" THEN {TRUE} ELSE BOOLEAN)
    /\ pc = "start"
    /\ log = <<>>
    /\ calls = <<>>
    /\ response = NoResponse
    /\ idx = 0
    /\ success_count = 0
    /\ rets = <<>>
    /\ exc = "none"
    /\ payload = "none"
    /\ rpc = 0
    /\ rstate = "idle"
    /\ open_ops = 0
    /\ starts = 0
    /\ commits = 0
    /\ definitions = <<>>
    /\ entities = <<>>
    /\ next_id = 0
    /\ property_results = <<>>
    /\ retval = [kind |-> "none", id |-> 0]

Next ==
    \/ cabinet_connect
    \/ cabinet_eval
    \/ cabinet_parse
    \/ simple_test_connect
    \/ simple_test_eval
    \/ simple_test_parse
    \/ simple_ruby_eval_connect
    \/ simple_ruby_eval_eval
    \/ simple_ruby_eval_parse
    \/ ruby_tester_connect
    \/ ruby_tester_eval
    \/ ruby_tester_parse
    \/ behavior_connect
    \/ behavior_eval
    \/ behavior_parse
    \/ smoke_eval
    \/ smoke_print

Spec == Init /\ [][Next]_vars

RubySpec == RbInit /\ [][RbNext]_vars

(***************************************************************************)
(* Properties                                                              *)
(***************************************************************************)
HasMsg(m) == \E i \in 1..Len(log) : log[i].msg = m
CountMsg(m) == Cardinality({ i \in 1..Len(log) : log[i].msg = m })
LastLog == log[Len(log)]
Ended == pc \in {"done", "raised"}

\* The canned payloads of each example, in source order.
PayloadsOf(s) ==
    CASE s = "arts_and_crafts_cabinet" -> <<"CABINET_RUBY_CODE">>
      [] s = "simple_test" -> <<"CUBE_CODE">>
      [] s = "behavior_tester" -> <<"BEHAVIOR_TEST_CODE">>
      [] s = "simple_ruby_eval" -> [i \in 1..Len(EXAMPLES) |-> EXAMPLES[i].code]
      [] s = "ruby_tester" -> [i \in 1..Len(TEST_CASES) |-> TEST_CASES[i].code]
      [] OTHER -> <<>>

\* The scripts that report a response through the three-way
\* success / error / parse-failure block.
ThreeWay == {"arts_and_crafts_cabinet", "simple_test", "simple_ruby_eval", "ruby_tester"}
Looping == {"simple_ruby_eval", "ruby_tester"}

OkMsg(s) ==
    CASE s = "arts_and_crafts_cabinet" -> "Cabinet created successfully! Result: "
      [] s = "simple_test" -> "Cube created successfully! Group ID: "
      [] s = "simple_ruby_eval" -> "Result: "
      [] OTHER -> "SUCCESS: "
ErrMsg(s) ==
    CASE s = "arts_and_crafts_cabinet" -> "Failed to create cabinet: "
      [] s = "simple_test" -> "Failed to create cube: "
      [] s = "simple_ruby_eval" -> "Error: "
      [] OTHER -> "ERROR: "
ParseMsg == "Failed to parse response: "
Separator(s) ==
    IF s = "simple_ruby_eval"
    THEN "----------------------------------------"
    ELSE "--------------------------------------------------"

IsOutcome(e) == e.msg \in {OkMsg(script), ErrMsg(script), ParseMsg}
Outcomes == SelectSeq(log, IsOutcome)
\* Responses that eval_ruby has returned and the script is done with.
Handled == IF pc = "parse" THEN Len(calls) - 1 ELSE Len(calls)

IsObject(r) == r.valid /\ r.shape = "object"
IsSuccess(r) == IsObject(r) /\ Truthy(Get(r.success))
IsError(r) == IsObject(r) /\ ~Truthy(Get(r.success))

----
\* C1: in every example script's main, eval_ruby is never called while
\* client.is_connected is false: a failed connection check logs the
\* connection error and returns, with zero remote calls and neither the
\* 'Connected to SketchUp MCP server.' line nor the completion line logged.
C1_NoCallWhileDisconnected ==
    (script \in Examples /\ ~connected) =>
        /\ calls = <<>>
        /\ ~HasMsg("Connected to SketchUp MCP server.")
        /\ ~HasMsg(Completion(script))
        /\ pc \in {"start", "returned"}
        /\ pc = "returned" =>
             log = <<Error("Failed to connect to the SketchUp MCP server.", "")>>

C1_Witness == script \in Examples /\ ~connected /\ pc = "returned"

\* C2: when connected, every canned payload is sent exactly once, unmodified
\* and in source order, with no retry: once a run has ended, the codes of the
\* calls it made are exactly the script's payloads in order (one for the
\* cabinet, the cube and the behavior test, len(EXAMPLES) / len(TEST_CASES)
\* for the two looping scripts), whatever the earlier responses were.
C2_EveryPayloadSentOnce ==
    (script \in Examples /\ connected /\ Ended) =>
        [i \in 1..Len(calls) |-> calls[i].code] = PayloadsOf(script)

\* C3: for each response returned by eval_ruby, the script logs exactly one
\* of three outcomes: the success message with the 'result' field (a JSON
\* object with truthy 'success'), the error message with the 'error' field
\* (a JSON object with falsy or absent 'success'), or the parse-failure
\* message (not valid JSON); the success message is never logged for a
\* response that is not valid JSON or whose 'success' is falsy.
C3_ExactlyOneOutcome ==
    (script \in ThreeWay /\ pc \notin {"start", "returned"}) =>
        /\ Len(Outcomes) = Handled
        /\ (pc # "parse" /\ response # NoResponse) =>
             /\ Outcomes # <<>>
             /\ LET o == Outcomes[Len(Outcomes)]
                IN  \/ IsSuccess(response) /\ o = Info(OkMsg(script), response.result)
                    \/ IsError(response) /\ o = Error(ErrMsg(script), Get(response.error))
                    \/ ~response.valid /\ o = Error(ParseMsg, response.text)

\* C4: in ruby_tester, test_ruby_code returns True exactly when the response
\* is a JSON object with truthy 'success' and False otherwise, so every
\* handled response has a return value; the count in the final
\* 'Testing complete: X/N tests passed' line is the number of True returns,
\* and 0 <= X <= N = len(TEST_CASES) after every iteration.
C4_ReturnsAndCount ==
    script = "ruby_tester" =>
        /\ Len(rets) = Handled
        /\ Len(rets) = Len(Outcomes)
        /\ \A i \in 1..Len(rets) : rets[i] <=> (Outcomes[i].msg = "SUCCESS: ")
        /\ success_count = Cardinality({ i \in 1..Len(rets) : rets[i] })
        /\ 0 <= success_count /\ success_count <= Len(TEST_CASES)
        /\ pc = "done" =>
             LastLog = Info("Testing complete: ", <<success_count, Len(TEST_CASES)>>)

\* C5: the smoke test calls eval_ruby exactly once, with the mock context
\* (request_id 1) and the line-creating script; it prints the raw result
\* first and the decoded form second, with no error handling in between, so
\* 'Parsed:' appears only after 'Result:' and only when the result was valid
\* JSON.
C5_ParsedOnlyAfterResult ==
    script = "test_eval_ruby" =>
        /\ pc # "start" =>
             calls = <<[fn |-> "eval_ruby", code |-> "test_code", request_id |-> 1]>>
        /\ pc = "start" => calls = <<>>
        /\ \A i \in 1..Len(log) :
             log[i].msg = "Parsed: " =>
                /\ response.valid
                /\ i = 2
                /\ log[1] = Stdout("Result: ", response.text)
        /\ pc = "done" => HasMsg("Parsed: ")
        /\ pc = "raised" =>
             /\ ~response.valid
             /\ exc = "JSONDecodeError"
             /\ log = <<Stdout("Result: ", response.text)>>

C5_Witness == script = "test_eval_ruby" /\ pc = "done" /\ HasMsg("Parsed: ")

\* C6: a failed or unparseable response never aborts a run: in the looping
\* scripts an error response or one that is not valid JSON for entry i still
\* leads to the separator for entry i and to every later entry being
\* evaluated; in the cabinet and cube scripts the final completion line is
\* still logged.
C6_FailureNeverAborts ==
    /\ (script \in Looping /\ Ended
          /\ \E k \in 1..Len(log) : log[k].msg \in {ErrMsg(script), ParseMsg}) =>
            /\ Len(calls) = Len(PayloadsOf(script))
            /\ CountMsg(Separator(script)) = Len(PayloadsOf(script))
    /\ (script \in {"arts_and_crafts_cabinet", "simple_test"} /\ Ended
          /\ (IsError(response) \/ ~response.valid)) =>
            LastLog.msg = Completion(script)

\* C7: once the connection check has passed and every eval_ruby call has
\* returned, each example's main logs its final completion line exactly once
\* and as its last log record, whatever text the server returned (valid JSON
\* of any shape, or not JSON at all).
C7_CompletionLogged ==
    (script \in Examples /\ connected /\ Ended) =>
        /\ LastLog.msg = Completion(script)
        /\ CountMsg(Completion(script)) = 1

\* C8: in behavior_tester the 'result' field is decoded a second time only
\* when the outer response decoded with a truthy 'success'; with a falsy
\* 'success' only the error is logged; and when the inner 'result' text is
\* not valid JSON the failure goes through the same 'Failed to parse
\* response' handler, no method or property line is logged, and
\* 'Testing completed.' is still logged.
BehaviorPrefix ==
    <<Info("Connected to SketchUp MCP server.", ""),
      Info("Testing component behavior methods...", "")>>

C8_InnerDecodeOnlyOnSuccess ==
    (script = "behavior_tester" /\ Ended) =>
        /\ (HasMsg("Available methods on Behavior object:") \/ exc \in {"TypeError", "KeyError"})
             => IsSuccess(response)
        /\ IsError(response) =>
             /\ pc = "done"
             /\ log = BehaviorPrefix
                        \o <<Error("Error: ", Get(response.error)),
                             Info("Testing completed.", "")>>
        /\ (IsSuccess(response) /\ response.result.py = "str"
              /\ response.result.json = "invalid") =>
             /\ pc = "done"
             /\ log = BehaviorPrefix
                        \o <<Error(ParseMsg, "JSONDecodeError"),
                             Info("Testing completed.", "")>>

C8_Witness ==
    /\ script = "behavior_tester"
    /\ pc = "done"
    /\ IsSuccess(response)
    /\ response.result.py = "str"
    /\ response.result.json = "invalid"

----
InEntities(ents) == SelectSeq(entities, LAMBDA e : e.in = ents)
LabelsIn(ents) == [i \in 1..Len(InEntities(ents)) |-> InEntities(ents)[i].label]
InstancesOf(defn, ents) ==
    { i \in 1..Len(entities) :
        /\ entities[i].kind = "instance"
        /\ entities[i].label = defn
        /\ entities[i].in = ents }
Finished == rstate \in {"returned", "raised"}

\* C9: in every payload that opens an undo operation, each start_operation
\* is matched by exactly one commit_operation before the payload finishes:
\* no execution, including one in which a geometry or definition step fails,
\* leaves an operation started but not ended, and commit_operation is never
\* called without a preceding start_operation.
C9_OperationsBalanced ==
    /\ commits <= starts
    /\ Finished => (open_ops = 0 /\ starts = commits)

\* C10: a successful run of the cabinet payload builds box, shelves, doors,
\* then base, corbels and crown, in that order, then places and commits: it
\* adds exactly three component definitions (cabinet, left door, right
\* door), one instance of each door inside the cabinet definition, exactly
\* two shelves and exactly one cabinet instance in the active entities, and
\* returns that instance's entity ID, produced only after commit_operation.
C10_CabinetBuilt ==
    payload = "CABINET_RUBY_CODE" =>
        /\ retval.kind # "none" => (rstate = "returned" /\ commits = 1 /\ open_ops = 0)
        /\ rstate = "returned" =>
             /\ [i \in 1..Len(definitions) |-> definitions[i].name]
                  = <<"Arts and Crafts Cabinet", "Left Cabinet Door", "Right Cabinet Door">>
             /\ LabelsIn("Arts and Crafts Cabinet")
                  = <<"bottom", "back", "left", "right", "top", "shelf", "shelf",
                      "Left Cabinet Door", "Right Cabinet Door",
                      "base", "left_corbel", "right_corbel", "crown", "taper">>
             /\ Cardinality(InstancesOf("Left Cabinet Door", "Arts and Crafts Cabinet")) = 1
             /\ Cardinality(InstancesOf("Right Cabinet Door", "Arts and Crafts Cabinet")) = 1
             /\ Cardinality({ i \in 1..Len(entities) :
                                /\ entities[i].label = "shelf"
                                /\ entities[i].in = "Arts and Crafts Cabinet"
                                /\ entities[i].extruded }) = 2
             /\ Cardinality(InstancesOf("Arts and Crafts Cabinet", "active_entities")) = 1
             /\ Len(entities) > 0
             /\ entities[Len(entities)].kind = "instance"
             /\ entities[Len(entities)].label = "Arts and Crafts Cabinet"
             /\ retval = [kind |-> "int", id |-> entities[Len(entities)].id]
             /\ starts = 1
             /\ commits = 1
             /\ open_ops = 0

C10_Witness ==
    /\ payload = "CABINET_RUBY_CODE"
    /\ rstate = "returned"
    /\ Len(entities) > 14

====
